---- MODULE Spec2Model ----
(***************************************************************************)
(* Model of the listing scraper: the pagination discoverer                 *)
(* (scraper/discover.py), the feed emitter (scraper/feed.py,               *)
(* scraper/models.py), the staleness tracker (scraper/state.py) and the    *)
(* pipeline that chains them (scraper/cli.py).                             *)
(*                                                                         *)
(* Text values whose characters matter (status) are sequences of           *)
(* one-character strings; opaque text values (urls, ids) are strings.      *)
(* Time is counted in whole hours.                                         *)
(***************************************************************************)
EXTENDS Integers, Sequences, FiniteSets, TLC

VARIABLES
    pc,            \* position of the run (see the specifications below)
    max_listings,  \* settings.max_listings
    current_page,  \* discover_and_extract: current_page
    all_listings,  \* discover_and_extract: all_listings
    requests,      \* page numbers handed to _fetch_page, in call order
    responses,     \* what the search capability answered, in call order
    sessions,      \* number of session establishment attempts
    listings,      \* _run_pipeline: listings / write_feed: its argument
    entries,       \* StateManager._entries
    state_file,    \* the file at settings.abs_state_path
    state_writes,  \* number of writes to the state file in this run
    feed_file,     \* the file at settings.abs_feed_path
    count,         \* value returned by write_feed
    log,           \* operations of the run, in execution order
    clock,         \* datetime.utcnow(), in hours
    start_keys,    \* url keys of the state file when the run loaded it
    urls,          \* filter_stale: its argument
    stale,         \* filter_stale: its result
    now,           \* the datetime.utcnow() that is_stale read
    page,          \* extract_listing: what the detail page holds
    extracted,     \* extract_listing: its result
    image_arg,     \* decode_chime_image_url: its argument
    image_ret,     \* decode_chime_image_url: its result
    name_arg,      \* truncate_listing_name: its argument
    name_ret       \* truncate_listing_name: its result

vars == <<pc, max_listings, current_page, all_listings, requests, responses,
          sessions, listings, entries, state_file, state_writes, feed_file,
          count, log, clock, start_keys, urls, stale, now, page, extracted,
          image_arg, image_ret, name_arg, name_ret>>

\* the variables of a pipeline run
run_vars == <<max_listings, current_page, all_listings, requests, responses,
              sessions, listings, entries, state_file, state_writes,
              feed_file, count, log, clock, start_keys, urls, stale, now>>

\* the variables of the calls of single functions
call_vars == <<page, extracted, image_arg, image_ret, name_arg, name_ret>>

\* no such call has been made
NoCalls ==
    /\ page = 0
    /\ extracted = 0
    /\ image_arg = <<>>
    /\ image_ret = <<>>
    /\ name_arg = <<>>
    /\ name_ret = <<>>

----------------------------------------------------------------------------
(* Bounds of the model *)

\* page size of the search API; 100 in discover.py, scaled down
PAGE_SIZE == 3
\* pages the search capability is asked for before the model stops asking
MaxPages == 2
\* longest listing collection handed to write_feed on its own
MaxFeedLen == 2
\* latest hour the clock reaches
MaxClock == 14
\* latest hour at which a scrape is recorded
MaxScraped == 1

\* settings.stale_hours
stale_hours == 12

base_url == "https://bradschmett.com"

----------------------------------------------------------------------------
(* Text helpers *)

NoText == <<>>
tActive == <<"A","c","t","i","v","e">>
tNew == <<"N","e","w">>
tSold == <<"S","o","l","d">>
tSoldDate == <<"s","o","l","d"," ","3","/","1">>
tOpenSun == <<"O","p","e","n"," ","S","u","n"," ","1","P","M","-","3","P","M">>
tPENDING == <<"P","E","N","D","I","N","G">>
tUnsold == <<"U","n","s","o","l","d">>
tSol == <<"S","o","l">>

UpperToLower ==
    [c \in {"A","C","D","E","G","I","N","O","P","S","U","M"} |->
        CASE c = "A" -> "a" [] c = "C" -> "c" [] c = "D" -> "d"
          [] c = "E" -> "e" [] c = "G" -> "g" [] c = "I" -> "i"
          [] c = "N" -> "n" [] c = "O" -> "o" [] c = "P" -> "p"
          [] c = "S" -> "s" [] c = "U" -> "u" [] c = "M" -> "m"]

\* str.lower()
lower(s) == [i \in 1..Len(s) |->
                IF s[i] \in DOMAIN UpperToLower THEN UpperToLower[s[i]] ELSE s[i]]

\* Python's  x in s  on strings
contains(s, x) ==
    \E i \in 0..(Len(s) - Len(x)) : SubSeq(s, i + 1, i + Len(x)) = x

\* concatenation of a sequence of sequences, in order
RECURSIVE Concat(_)
Concat(ss) == IF ss = <<>> THEN <<>> ELSE Head(ss) \o Concat(Tail(ss))

\* s[:n] for n >= 0
Prefix(s, n) == SubSeq(s, 1, IF n < Len(s) THEN n ELSE Len(s))

----------------------------------------------------------------------------
(* scraper/extract.py: decode_chime_image_url                              *)
(* (scripts/reformat_feed.py holds a copy with the same steps)             *)
(*                                                                         *)
(* An image url is the sequence of its pieces: the scheme, the host, the   *)
(* path, the marker "original_" and then single characters.                *)

ProxyHost == "img.chime.me"
CdnHost == "cdn.photos.sparkplatform.com"
TokenMarker == "original_"

NoImage == <<>>
CdnImage(k) == <<"https://", CdnHost, "/", ToString(k), ".", "j", "p", "g">>

\* Python's  x in s  for a url and one of its pieces
has_piece(u, x) == \E i \in 1..Len(u) : u[i] = x

\* str.rstrip(".jpg"): drops every trailing character that is one of . j p g
RECURSIVE rstrip_jpg(_)
rstrip_jpg(u) ==
    IF u # <<>> /\ u[Len(u)] \in {".", "j", "p", "g"}
    THEN rstrip_jpg(SubSeq(u, 1, Len(u) - 1))
    ELSE u

\* str.split("original_", 1)
split_once(u) ==
    IF has_piece(u, TokenMarker)
    THEN LET i == CHOOSE j \in 1..Len(u) :
                    /\ u[j] = TokenMarker
                    /\ \A k \in 1..(j - 1) : u[k] # TokenMarker
         IN  <<SubSeq(u, 1, i - 1), SubSeq(u, i + 1, Len(u))>>
    ELSE <<u>>

\* token.replace("-", "+").replace("_", "/")
to_std_alphabet(tok) ==
    [i \in 1..Len(tok) |->
        CASE tok[i] = "-" -> "+" [] tok[i] = "_" -> "/" [] OTHER -> tok[i]]

\* the result of a step that can raise
Value(v) == [raised |-> FALSE, val |-> v]
Raised == [raised |-> TRUE, val |-> <<>>]

Base64Alphabet == {"e", "J", "x", "y", "g", "z", "q", "+", "/"}

\* token_std + "=" * (4 - len(token_std) % 4)  and base64.b64decode: characters
\* outside the alphabet are dropped, and the data characters left over after
\* the last full group of four must be closed by the padding
b64decode(tok_std) ==
    LET data == SelectSeq(tok_std, LAMBDA c : c \in Base64Alphabet)
        pad == 4 - (Len(tok_std) % 4)
        left == Len(data) % 4
    IN  IF left = 0 \/ (left = 2 /\ pad >= 2) \/ (left = 3 /\ pad >= 1)
        THEN Value(data)
        ELSE Raised

\* bytes that do not decode as UTF-8
BadBytes == <<"\\xff">>

\* the base64 texts that are raw-deflate streams, with what they inflate to
RawDeflate ==
    (<<"e", "J", "x">> :> CdnImage(1)) @@
    (<<"e", "J", "g">> :> CdnImage(2)) @@
    (<<"e", "+", "/">> :> CdnImage(3)) @@
    (<<"e", "J", "y">> :> BadBytes)

\* zlib.decompress(compressed, -15)
decompress(data) ==
    IF data \in DOMAIN RawDeflate THEN Value(RawDeflate[data]) ELSE Raised

\* bytes.decode("utf-8")
decode_utf8(bytes) == IF bytes = BadBytes THEN Raised ELSE Value(bytes)

\* the body of the  try  block
try_decode(u) ==
    LET parts == split_once(rstrip_jpg(u))
    IN  IF Len(parts) # 2 THEN Value(u)
        ELSE LET compressed == b64decode(to_std_alphabet(parts[2]))
             IN  IF compressed.raised THEN Raised
                 ELSE LET inflated == decompress(compressed.val)
                      IN  IF inflated.raised THEN Raised
                          ELSE decode_utf8(inflated.val)

\* what a caller sees when the function raises
Traceback == <<"Traceback">>

\* the function without its  except Exception
decode_unguarded(u) ==
    IF u = NoImage \/ ~has_piece(u, ProxyHost) THEN u
    ELSE LET r == try_decode(u)
         IN  IF r.raised THEN Traceback ELSE r.val

decode_chime_image_url(u) ==
    IF u = NoImage \/ ~has_piece(u, ProxyHost) THEN u
    ELSE LET r == try_decode(u)
         IN  IF r.raised THEN u ELSE r.val

\* a proxy url whose token decodes to CdnImage(k), for k in 1..3
ProxyImage(k) ==
    <<"https://", ProxyHost, "/imageemb/", TokenMarker>> \o
    (CASE k = 1 -> <<"e", "J", "x">> [] k = 2 -> <<"e", "J", "g">>
       [] OTHER -> <<"e", "-", "_">>) \o
    <<".", "j", "p", "g">>

----------------------------------------------------------------------------
(* scraper/extract.py: extract_listing                                     *)
(*                                                                         *)
(* A price is an integer number of cents.                                  *)

DigitValue ==
    [c \in {"0","1","2","3","4","5","6","7","8","9"} |->
        CASE c = "0" -> 0 [] c = "1" -> 1 [] c = "2" -> 2 [] c = "3" -> 3
          [] c = "4" -> 4 [] c = "5" -> 5 [] c = "6" -> 6 [] c = "7" -> 7
          [] c = "8" -> 8 [] c = "9" -> 9]

IsDigit(c) == c \in DOMAIN DigitValue

\* the number a sequence of digits writes (0 for none)
RECURSIVE ToNumber(_)
ToNumber(ds) ==
    IF ds = <<>> THEN 0
    ELSE 10 * ToNumber(SubSeq(ds, 1, Len(ds) - 1)) + DigitValue[ds[Len(ds)]]

\* float(digits) in cents, for at most two decimals; ValueError for no
\* digit at all or more than one point
to_float(digits) ==
    LET points == {i \in 1..Len(digits) : digits[i] = "."}
    IN  IF Cardinality(points) > 1 \/ ~(\E i \in 1..Len(digits) : IsDigit(digits[i]))
        THEN Raised
        ELSE LET dot == IF points = {} THEN Len(digits) + 1
                        ELSE CHOOSE i \in points : TRUE
                 whole == SubSeq(digits, 1, dot - 1)
                 frac == SubSeq(digits, dot + 1, Len(digits))
             IN  Value(100 * ToNumber(whole)
                       + (IF Len(frac) = 0 THEN 0
                          ELSE IF Len(frac) = 1 THEN 10 * ToNumber(frac)
                          ELSE ToNumber(SubSeq(frac, 1, 2))))

\* a raw price: text, or a JSON number written with the digits of text
PriceText(x) == [number |-> FALSE, text |-> x]
PriceNumber(x) == [number |-> TRUE, text |-> x]

\* _parse_price; re.sub raises TypeError on a number that is not zero
parse_price(raw) ==
    IF raw.number
    THEN IF ToNumber(raw.text) = 0 THEN Value(0) ELSE Raised
    ELSE IF raw.text = <<>> THEN Value(0)
    ELSE LET digits == SelectSeq(raw.text, LAMBDA c : IsDigit(c) \/ c = ".")
             f == to_float(digits)
         IN  IF f.raised THEN Value(0) ELSE f

\* _int
parse_int(raw) ==
    IF raw = <<>> THEN 0
    ELSE ToNumber(SelectSeq(raw, IsDigit))

\* text helpers of the feed fields

Uppercase ==
    <<"A","B","C","D","E","F","G","H","I","J","K","L","M",
      "N","O","P","Q","R","S","T","U","V","W","X","Y","Z">>
Lowercase ==
    <<"a","b","c","d","e","f","g","h","i","j","k","l","m",
      "n","o","p","q","r","s","t","u","v","w","x","y","z">>

\* str.isupper() and str.isalpha() of one character
isupper(c) == \E i \in 1..Len(Uppercase) : Uppercase[i] = c
isalpha(c) == isupper(c) \/ \E i \in 1..Len(Lowercase) : Lowercase[i] = c

to_upper(c) ==
    IF \E i \in 1..Len(Lowercase) : Lowercase[i] = c
    THEN Uppercase[CHOOSE i \in 1..Len(Lowercase) : Lowercase[i] = c]
    ELSE c
to_lower(c) ==
    IF isupper(c)
    THEN Lowercase[CHOOSE i \in 1..Len(Uppercase) : Uppercase[i] = c]
    ELSE c

\* str.title(): a letter that follows a letter is lowered, any other letter
\* is raised
title(s) ==
    [i \in 1..Len(s) |->
        IF i > 1 /\ isalpha(s[i - 1]) THEN to_lower(s[i]) ELSE to_upper(s[i])]

Whitespace == {" ", "\n", "\r", "\t"}

\* the positions of s, in order
Positions(s) == [i \in 1..Len(s) |-> i]

\* str.strip()
lstrip(s) ==
    IF \A i \in 1..Len(s) : s[i] \in Whitespace THEN <<>>
    ELSE SubSeq(s, CHOOSE i \in 1..Len(s) :
                      /\ s[i] \notin Whitespace
                      /\ \A j \in 1..(i - 1) : s[j] \in Whitespace,
                Len(s))
rstrip(s) ==
    IF \A i \in 1..Len(s) : s[i] \in Whitespace THEN <<>>
    ELSE SubSeq(s, 1, CHOOSE i \in 1..Len(s) :
                         /\ s[i] \notin Whitespace
                         /\ \A j \in (i + 1)..Len(s) : s[j] \in Whitespace)
strip(s) == rstrip(lstrip(s))

\* s.split(",")[0]
before_comma(s) ==
    IF \E i \in 1..Len(s) : s[i] = ","
    THEN SubSeq(s, 1, (CHOOSE i \in 1..Len(s) :
                         s[i] = "," /\ \A j \in 1..(i - 1) : s[j] # ",") - 1)
    ELSE s

\* str(n) for n >= 0
RECURSIVE str(_)
str(n) ==
    (IF n >= 10 THEN str(n \div 10) ELSE <<>>) \o
    <<CHOOSE c \in DOMAIN DigitValue : DigitValue[c] = n % 10>>

\* " ".join(parts)
RECURSIVE join(_)
join(parts) ==
    IF parts = <<>> THEN <<>>
    ELSE IF Len(parts) = 1 THEN parts[1]
    ELSE parts[1] \o <<" ">> \o join(Tail(parts))

\* str.startswith
startswith(s, x) == Len(s) >= Len(x) /\ SubSeq(s, 1, Len(x)) = x

\* str.rfind(x) as a 1-based position, for x in s
rfind(s, x) ==
    CHOOSE i \in 1..(Len(s) - Len(x) + 1) :
        /\ SubSeq(s, i, i + Len(x) - 1) = x
        /\ \A j \in (i + 1)..(Len(s) - Len(x) + 1) :
              SubSeq(s, j, j + Len(x) - 1) # x

\* the structured source is missing: _extract_jsonld returned None
NoJsonLd == [found |-> FALSE, price |-> PriceText(<<>>), image |-> NoImage,
             name |-> <<>>]

\* lines 123-124 with the rendered price taking over whenever it parses
reconcile_price_rendered_first(structured, rendered) ==
    IF parse_price(PriceText(rendered)).val # 0
    THEN parse_price(PriceText(rendered)).val
    ELSE structured

\* lines 123-124:  if not listing.price: listing.price = _parse_price(dom price)
reconcile_price(structured, rendered) ==
    IF structured = 0 THEN parse_price(PriceText(rendered)).val ELSE structured

\* lines 126-127
reconcile_image(structured, rendered) ==
    IF structured = NoImage THEN decode_chime_image_url(rendered) ELSE structured

NotExtracted == [ok |-> FALSE]
Extracted(l) == [ok |-> TRUE, listing |-> l]

\* extract_listing on a page pg at url u, at hour t; every exception of the
\* second  try  block ends in  return None
extract_listing(pg, u, t) ==
    IF ~pg.loaded THEN NotExtracted
    ELSE
    LET jsonld == pg.jsonld
        dom == pg.dom
        price1 == IF jsonld.found THEN parse_price(jsonld.price) ELSE Value(0)
        image1 == IF jsonld.found THEN decode_chime_image_url(jsonld.image)
                  ELSE NoImage
        \* name is bound only inside  if jsonld:
        name == IF jsonld.found THEN Value(jsonld.name) ELSE Raised
        address == IF dom.street # <<>> THEN Value(dom.street) ELSE name
    IN  IF price1.raised \/ address.raised THEN NotExtracted
        ELSE IF pg.key_details.mls_id = "" THEN NotExtracted
        ELSE Extracted(
            [url |-> u,
             lofty_id |-> "",
             mls_id |-> pg.key_details.mls_id,
             address |-> address.val,
             city |-> dom.city,
             price |-> reconcile_price(price1.val, dom.price),
             bedrooms |-> parse_int(dom.beds),
             bathrooms |-> parse_int(dom.baths),
             sqft |-> parse_int(dom.sqft),
             property_type |-> pg.key_details.property_type,
             status |-> dom.status,
             image_url |-> reconcile_image(image1, dom.image),
             description |-> dom.description,
             scraped_at |-> t])

----------------------------------------------------------------------------
(* The search capability: what the site can answer *)

\* a url is the sequence of its parts: <<origin, path, number>>, <<path,
\* number>> for a site-relative one, <<>> for the empty string
DetailPath == "/listing-detail/"

tStreet == <<"1", "2", " ", "E", "l", "m", " ", "S", "t">>
tName == <<"1", "2", " ", "E", "l", "m", " ", "S", "t", ",", " ", "P", "a", "l", "m", " ", "D", "e", "s", "e", "r", "t">>
tCity == <<"P", "a", "l", "m", " ", "D", "e", "s", "e", "r", "t", ",", " ", "C", "A", " ", "9", "2", "2", "6", "0">>
tCondo == <<"C", "o", "n", "d", "o">>
tFamily == <<"S", "i", "n", "g", "l", "e", " ", "F", "a", "m", "i", "l", "y", " ", "R", "e", "s", "i", "d", "e", "n", "c", "e">>
tPalmDesert == <<"P", "a", "l", "m", " ", "D", "e", "s", "e", "r", "t">>
tCA == <<"C", "A">>
tZip == <<"9", "2", "2", "6", "0">>
tLuxury == <<"<", "p", ">", "L", "U", "X", "U", "R", "Y", " ", " ", "H", "O", "M", "E", "<", "/", "p", ">">>
tQuiet == <<"Q", "u", "i", "e", "t", " ", "h", "o", "m", "e", " ", "w", "i", "t", "h", " ", " ", "p", "o", "o", "l", " ", "a", "n", "d", " ", "s", "p", "a", " ", "v", "i", "e", "w", "s">>

\* the k-th listing of the site's result set, as the search API reports it
SiteListing(k) ==
    [id |-> k,
     mlsListingId |-> IF k % 2 = 1 THEN "MLS" \o ToString(k) ELSE "",
     flag |-> CASE k % 3 = 0 -> tSold [] k % 3 = 1 -> NoText [] OTHER -> tNew,
     openHouseDesc |-> IF k % 3 = 1 /\ k > 3 THEN tOpenSun ELSE NoText,
     detailUrl |-> IF k % 4 = 0 THEN <<base_url, DetailPath, k>>
                   ELSE <<DetailPath, k>>,
     bedrooms |-> k % 4,
     propertyType |-> IF k % 2 = 0 THEN tCondo ELSE tFamily,
     streetAddress |-> str(k) \o <<" ">> \o tStreet,
     city |-> tPalmDesert,
     state |-> tCA,
     zipCode |-> tZip,
     previewPicture |-> CASE k % 3 = 1 -> ProxyImage(1)
                          [] k % 3 = 2 -> CdnImage(k)
                          [] OTHER -> NoImage,
     detailsDescribe |-> CASE k % 4 = 1 -> tLuxury [] k % 4 = 3 -> tQuiet
                           [] OTHER -> NoText]

\* JavaScript's  a || b  on strings
OrText(a, b) == IF a # NoText THEN a ELSE b

\* position i of s lies in a match of /<[^>]*>/: a "<" at or before it
\* with no ">" in between, and a ">" at or after it
InTag(s, i) ==
    \E j \in 1..i :
        /\ s[j] = "<"
        /\ \A m \in j..(i - 1) : s[m] # ">"
        /\ \E k \in i..Len(s) : k > j /\ s[k] = ">"

\* replace(/<[^>]*>/g, ' '): each match leaves one space, where it ends
strip_tags(s) ==
    LET kept == SelectSeq(Positions(s),
                          LAMBDA i : ~InTag(s, i) \/ s[i] = ">")
    IN  [n \in 1..Len(kept) |->
            IF InTag(s, kept[n]) THEN " " ELSE s[kept[n]]]

\* replace(/\s+/g, ' '): each run of whitespace leaves one space
collapse_spaces(s) ==
    LET kept == SelectSeq(Positions(s),
                          LAMBDA i : ~(s[i] \in Whitespace /\ i > 1
                                       /\ s[i - 1] \in Whitespace))
    IN  [n \in 1..Len(kept) |->
            IF s[kept[n]] \in Whitespace THEN " " ELSE s[kept[n]]]

\* the 300 of  substring(0, 300)
DescribeMax == 300

\* the mapping applied to each element of data.listings in page.evaluate
js_item(l) ==
    [id |-> l.id,
     mlsId |-> l.mlsListingId,
     status |-> OrText(l.flag, OrText(l.openHouseDesc, tActive)),
     detailUrl |-> l.detailUrl,
     bedrooms |-> l.bedrooms,
     propertyType |-> l.propertyType,
     street |-> l.streetAddress,
     city |-> l.city,
     state |-> OrText(l.state, tCA),
     zip |-> l.zipCode,
     image |-> l.previewPicture,
     description |->
        Prefix(strip(collapse_spaces(strip_tags(l.detailsDescribe))),
               DescribeMax)]

\* a page of n raw items; the item at position missing (0: none) carries no
\* id; shift is the number of listings the source inserted ahead of this
\* page since the previous request, which repeats that many earlier items
RawPage(p, n, missing, shift) ==
    [i \in 1..n |->
        js_item([SiteListing((p - 1) * PAGE_SIZE + i - shift)
                    EXCEPT !.id = IF i = missing THEN 0 ELSE @])]

FailedResponse == [ok |-> FALSE, listings |-> <<>>]

\* what page.evaluate can return for page p: an error status, or up to
\* PAGE_SIZE raw items
Responses(p) ==
    {FailedResponse} \cup
    {[ok |-> TRUE, listings |-> RawPage(p, n, missing, shift)] :
        n \in 0..PAGE_SIZE, missing \in 0..PAGE_SIZE,
        shift \in IF p = 1 THEN {0} ELSE {0, 1}}

----------------------------------------------------------------------------
(* scraper/discover.py *)

startswith_http(u) == u # <<>> /\ u[1] = base_url

\* the Listing built from one raw item
to_listing(item, t) ==
    [url |-> IF item.detailUrl # <<>> /\ ~startswith_http(item.detailUrl)
             THEN <<base_url>> \o item.detailUrl
             ELSE item.detailUrl,
     lofty_id |-> ToString(item.id),
     mls_id |-> item.mlsId,
     bedrooms |-> item.bedrooms,
     property_type |-> item.propertyType,
     status |-> OrText(item.status, tActive),
     address |-> item.street,
     city |-> strip(item.city \o <<",", " ">> \o item.state \o <<" ">>
                    \o item.zip),
     image_url |-> item.image,
     description |-> item.description,
     scraped_at |-> t]

\* _fetch_page, given what page.evaluate returned
RECURSIVE convert(_, _)
convert(items, t) ==
    IF items = <<>> THEN <<>>
    ELSE IF Head(items).id = 0 THEN convert(Tail(items), t)
    ELSE <<to_listing(Head(items), t)>> \o convert(Tail(items), t)

fetch_page(resp, t) ==
    IF ~resp.ok THEN <<>> ELSE convert(resp.listings, t)

\* session establishment without the  return []  of the except branch
EstablishSession_fallthrough(ok) ==
    /\ pc = "AwaitingSession"
    /\ sessions' = sessions + 1
    /\ log' = Append(log, IF ok THEN "session" ELSE "session_failed")
    /\ pc' = "Paginating"
    /\ all_listings' = <<>>
    /\ current_page' = 1
    /\ UNCHANGED listings
    /\ UNCHANGED <<max_listings, requests, responses, entries, state_file,
                   state_writes, feed_file, count, clock, start_keys, urls,
                   stale, now>>
    /\ UNCHANGED call_vars

\* session establishment: goto + wait_for_selector either pass or raise
EstablishSession(ok) ==
    /\ pc = "AwaitingSession"
    /\ sessions' = sessions + 1
    /\ log' = Append(log, IF ok THEN "session" ELSE "session_failed")
    /\ IF ok
       THEN /\ pc' = "Paginating"
            /\ all_listings' = <<>>
            /\ current_page' = 1
            /\ UNCHANGED listings
       ELSE /\ pc' = "Failed"
            /\ listings' = <<>>
            /\ UNCHANGED <<all_listings, current_page>>
    /\ UNCHANGED <<max_listings, requests, responses, entries, state_file,
                   state_writes, feed_file, count, clock, start_keys, urls,
                   stale, now>>
    /\ UNCHANGED call_vars

\* all_listings.extend(batch), as a value
extend_distinct(acc, batch) ==
    acc \o SelectSeq(batch, LAMBDA l :
                ~(\E i \in 1..Len(acc) : acc[i].lofty_id = l.lofty_id))

extend(acc, batch) == acc \o batch

\* the loop with  continue  in place of the first  break
FetchPage_continue(resp) ==
    /\ pc = "Paginating"
    /\ current_page <= MaxPages
    /\ requests' = Append(requests, current_page)
    /\ responses' = Append(responses, resp)
    /\ log' = Append(log, "fetch")
    /\ LET batch == fetch_page(resp, clock)
           extended == extend(all_listings, batch)
       IN  IF batch = <<>>
           THEN /\ pc' = "Paginating"
                /\ current_page' = current_page + 1
                /\ UNCHANGED <<all_listings, listings>>
           ELSE IF Len(batch) < PAGE_SIZE
           THEN /\ pc' = "Done"
                /\ all_listings' = extended
                /\ listings' = extended
                /\ UNCHANGED current_page
           ELSE IF max_listings # 0 /\ Len(extended) >= max_listings
           THEN /\ pc' = "Done"
                /\ all_listings' = Prefix(extended, max_listings)
                /\ listings' = Prefix(extended, max_listings)
                /\ UNCHANGED current_page
           ELSE /\ pc' = "Paginating"
                /\ all_listings' = extended
                /\ current_page' = current_page + 1
                /\ UNCHANGED listings
    /\ UNCHANGED <<max_listings, sessions, entries, state_file, state_writes,
                   feed_file, count, clock, start_keys, urls, stale, now>>
    /\ UNCHANGED call_vars

\* one iteration of the  while True  loop; leaving the loop returns
\* all_listings to _run_pipeline
FetchPage(resp) ==
    /\ pc = "Paginating"
    /\ current_page <= MaxPages
    /\ requests' = Append(requests, current_page)
    /\ responses' = Append(responses, resp)
    /\ log' = Append(log, "fetch")
    /\ LET batch == fetch_page(resp, clock)
           extended == extend(all_listings, batch)
       IN  IF batch = <<>>
           THEN /\ pc' = "Done"
                /\ listings' = all_listings
                /\ UNCHANGED <<all_listings, current_page>>
           ELSE IF Len(batch) < PAGE_SIZE
           THEN /\ pc' = "Done"
                /\ all_listings' = extended
                /\ listings' = extended
                /\ UNCHANGED current_page
           ELSE IF max_listings # 0 /\ Len(extended) >= max_listings
           THEN /\ pc' = "Done"
                /\ all_listings' = Prefix(extended, max_listings)
                /\ listings' = Prefix(extended, max_listings)
                /\ UNCHANGED current_page
           ELSE /\ pc' = "Paginating"
                /\ all_listings' = extended
                /\ current_page' = current_page + 1
                /\ UNCHANGED listings
    /\ UNCHANGED <<max_listings, sessions, entries, state_file, state_writes,
                   feed_file, count, clock, start_keys, urls, stale, now>>
    /\ UNCHANGED call_vars

----------------------------------------------------------------------------
(* scraper/models.py *)

inactive ==
    << <<"s","o","l","d">>, <<"c","l","o","s","e","d">>,
       <<"p","e","n","d","i","n","g">>, <<"w","i","t","h","d","r","a","w","n">>,
       <<"e","x","p","i","r","e","d">>, <<"c","a","n","c","e","l","l","e","d">> >>

\* Listing.is_active
is_active(l) ==
    LET s == lower(l.status)
    IN  s # NoText /\ ~(\E k \in 1..Len(inactive) : contains(s, inactive[k]))

\* the 25 of  name[:25]  and  description[:25]
NameCeiling == 25

tIn == <<"i", "n", " ">>

\* Listing.listing_name
listing_name(l) ==
    LET city_short == IF l.city # <<>> THEN strip(before_comma(l.city)) ELSE <<>>
        parts == (IF l.bedrooms > 0 THEN <<str(l.bedrooms) \o <<"B", "R">> >>
                  ELSE <<>>) \o
                 (IF l.property_type # <<>> THEN <<l.property_type>> ELSE <<>>) \o
                 (IF city_short # <<>> THEN <<tIn \o city_short>> ELSE <<>>)
        name1 == IF parts # <<>> THEN join(parts) ELSE l.address
        parts_no_city == SelectSeq(parts, LAMBDA q : ~startswith(q, tIn))
        name2 == IF Len(name1) > NameCeiling /\ city_short # <<>>
                 THEN IF parts_no_city # <<>> THEN join(parts_no_city)
                      ELSE l.address
                 ELSE name1
        name3 == IF Len(name2) > NameCeiling THEN Prefix(name2, NameCeiling)
                 ELSE name2
    IN  IF name3 # <<>> THEN name3 ELSE Prefix(l.address, NameCeiling)

\* description.replace("\n", " ").replace("\r", " ")
replace_newlines(s) ==
    [i \in 1..Len(s) |-> IF s[i] \in {"\n", "\r"} THEN " " ELSE s[i]]

\* desc of from_listing
row_description(l) ==
    IF l.description # <<>>
    THEN Prefix(strip(replace_newlines(l.description)), NameCeiling)
    ELSE <<>>

\* FeedRow.from_listing
from_listing(l) ==
    [listing_id |-> l.lofty_id,
     listing_name |-> listing_name(l),
     final_url |-> l.url,
     image_url |-> l.image_url,
     listing_type |-> "For Sale",
     description |-> row_description(l)]

----------------------------------------------------------------------------
(* scripts/reformat_feed.py *)

tSpaceIn == <<" ", "i", "n", " ">>

\* truncate_listing_name without its last line  return name[:25]
truncate_listing_name_no_cut(name) ==
    IF Len(name) <= NameCeiling THEN name
    ELSE IF contains(name, tSpaceIn)
         THEN SubSeq(name, 1, rfind(name, tSpaceIn) - 1)
         ELSE name

truncate_listing_name(name) ==
    IF Len(name) <= NameCeiling THEN name
    ELSE LET name1 == IF contains(name, tSpaceIn)
                      THEN SubSeq(name, 1, rfind(name, tSpaceIn) - 1)
                      ELSE name
         IN  IF Len(name1) <= NameCeiling THEN name1
             ELSE Prefix(name1, NameCeiling)

\* number of uppercase characters
RECURSIVE count_upper(_)
count_upper(s) ==
    IF s = <<>> THEN 0
    ELSE (IF isupper(Head(s)) THEN 1 ELSE 0) + count_upper(Tail(s))

\* fix_description;  n > len * 0.5  is  2 * n > len
fix_description(desc) ==
    LET d == Prefix(desc, NameCeiling)
    IN  IF d # <<>> /\ 2 * count_upper(d) > Len(d) THEN title(d) ELSE d

----------------------------------------------------------------------------
(* scraper/models.py: StateEntry *)

\* the StateEntry that StateManager.update builds
StateEntry(l) ==
    [url |-> l.url, mls_id |-> l.mls_id, last_scraped |-> l.scraped_at,
     status |-> l.status]

----------------------------------------------------------------------------
(* scraper/feed.py *)

\* the comprehension without its  and lst.mls_id
active_of_any_mls(ls) == SelectSeq(ls, LAMBDA l : is_active(l))

\* the comprehension  [lst for lst in listings if lst.is_active and lst.mls_id]
active_of(ls) == SelectSeq(ls, LAMBDA l : is_active(l) /\ l.mls_id # "")

NoFeed == [exists |-> FALSE, rows |-> <<>>]

\* write_feed opening the file before it looks at  active
feed_after_opened_first(ls, file) ==
    LET active == active_of(ls)
    IN  [exists |-> TRUE,
         rows |-> [i \in 1..Len(active) |-> from_listing(active[i])]]

\* the feed file after write_feed(ls), given the file before
feed_after(ls, file) ==
    LET active == active_of(ls)
    IN  IF active = <<>> THEN file
        ELSE [exists |-> TRUE,
              rows |-> [i \in 1..Len(active) |-> from_listing(active[i])]]

\* the value write_feed(ls) returns
write_feed(ls) == Len(active_of(ls))

----------------------------------------------------------------------------
(* scraper/state.py *)

EmptyMap == [u \in {} |-> 0]
NoStateFile == [kind |-> "absent", data |-> EmptyMap]
\* a file whose text json.loads rejects
CorruptStateFile == [kind |-> "corrupt", data |-> EmptyMap]

\* datetime -> ISO text (model_dump(mode="json")) and back (StateEntry(**entry))
isoformat(t) == <<"T", t>>
fromisoformat(x) == x[2]

\* StateManager._load: the entries after construction
load(file) ==
    IF file.kind = "json"
    THEN [u \in DOMAIN file.data |->
            [file.data[u] EXCEPT !.last_scraped = fromisoformat(@)]]
    ELSE EmptyMap

\* StateManager.save: the file it writes
dump(es) ==
    [kind |-> "json",
     data |-> [u \in DOMAIN es |->
                 [es[u] EXCEPT !.last_scraped = isoformat(@)]]]

\* update rebinding _entries to a new one-entry dict
update_rebind(es, l) == [u \in {l.url} |-> StateEntry(l)]

\* StateManager.update
update(es, l) ==
    [u \in DOMAIN es \cup {l.url} |-> IF u = l.url THEN StateEntry(l) ELSE es[u]]

\* the loop  for listing in listings: state.update(listing)
RECURSIVE update_all(_, _)
update_all(es, ls) ==
    IF ls = <<>> THEN es ELSE update_all(update(es, Head(ls)), Tail(ls))

\* is_stale with  <=  in place of  <
is_stale_inclusive(es, u, t) ==
    IF u \notin DOMAIN es THEN TRUE
    ELSE LET cutoff == t - stale_hours
         IN  es[u].last_scraped <= cutoff

\* StateManager.is_stale
is_stale(es, u, t) ==
    IF u \notin DOMAIN es THEN TRUE
    ELSE LET cutoff == t - stale_hours
         IN  es[u].last_scraped < cutoff

\* StateManager.filter_stale
filter_stale(es, us, t) == SelectSeq(us, LAMBDA u : is_stale(es, u, t))

----------------------------------------------------------------------------
(* scraper/cli.py: _run_pipeline *)

Url(k) == <<base_url, DetailPath, k>>

\* a Listing as an earlier run scraped it
OldListing(k, t) == to_listing(js_item(SiteListing(k)), t)

\* values of --max-listings (0: unlimited)
MaxListingsChoices == {0, 1, PAGE_SIZE + 1}

\* state files an earlier run can have left
InitialStateFiles ==
    {NoStateFile, CorruptStateFile,
     dump(update_all(EmptyMap, <<OldListing(1, 0), OldListing(99, 0)>>))}

\* feed files an earlier run can have left
OldFeed == feed_after(<<OldListing(1, 0)>>, NoFeed)
InitialFeedFiles == {NoFeed, OldFeed}

\* state = StateManager()
LoadState ==
    /\ pc = "start"
    /\ entries' = load(state_file)
    /\ start_keys' = DOMAIN state_file.data
    /\ log' = Append(log, "load")
    /\ pc' = "AwaitingSession"
    /\ UNCHANGED <<max_listings, current_page, all_listings, requests,
                   responses, sessions, listings, state_file, state_writes,
                   feed_file, count, clock, urls, stale, now>>
    /\ UNCHANGED call_vars

\* if not listings: raise typer.Exit(1)
ExitNoListings ==
    /\ pc \in {"Done", "Failed"}
    /\ listings = <<>>
    /\ log' = Append(log, "exit")
    /\ pc' = "Exit1"
    /\ UNCHANGED <<max_listings, current_page, all_listings, requests,
                   responses, sessions, listings, entries, state_file,
                   state_writes, feed_file, count, clock, start_keys, urls,
                   stale, now>>
    /\ UNCHANGED call_vars

\* the update loop followed by an extra  state.save()
UpdateState_flush ==
    /\ pc \in {"Done", "Failed"}
    /\ listings # <<>>
    /\ entries' = update_all(entries, listings)
    /\ state_file' = dump(entries')
    /\ state_writes' = state_writes + 1
    /\ log' = Append(log, "update")
    /\ pc' = "Updated"
    /\ UNCHANGED <<max_listings, current_page, all_listings, requests,
                   responses, sessions, listings, feed_file, count, clock,
                   start_keys, urls, stale, now>>
    /\ UNCHANGED call_vars

\* for listing in listings: state.update(listing)
UpdateState ==
    /\ pc \in {"Done", "Failed"}
    /\ listings # <<>>
    /\ entries' = update_all(entries, listings)
    /\ log' = Append(log, "update")
    /\ pc' = "Updated"
    /\ UNCHANGED <<max_listings, current_page, all_listings, requests,
                   responses, sessions, listings, state_file, state_writes,
                   feed_file, count, clock, start_keys, urls, stale, now>>
    /\ UNCHANGED call_vars

\* count = write_feed(listings)
EmitFeed ==
    /\ pc = "Updated"
    /\ feed_file' = feed_after(listings, feed_file)
    /\ count' = write_feed(listings)
    /\ log' = Append(log, "write_feed")
    /\ pc' = "FeedWritten"
    /\ UNCHANGED <<max_listings, current_page, all_listings, requests,
                   responses, sessions, listings, entries, state_file,
                   state_writes, clock, start_keys, urls, stale, now>>
    /\ UNCHANGED call_vars

\* state.save()
SaveState ==
    /\ pc = "FeedWritten"
    /\ state_file' = dump(entries)
    /\ state_writes' = state_writes + 1
    /\ log' = Append(log, "save")
    /\ pc' = "Finished"
    /\ UNCHANGED <<max_listings, current_page, all_listings, requests,
                   responses, sessions, listings, entries, feed_file, count,
                   clock, start_keys, urls, stale, now>>
    /\ UNCHANGED call_vars

Init ==
    /\ pc = "start"
    /\ max_listings \in MaxListingsChoices
    /\ current_page = 0
    /\ all_listings = <<>>
    /\ requests = <<>>
    /\ responses = <<>>
    /\ sessions = 0
    /\ listings = <<>>
    /\ entries = EmptyMap
    /\ state_file \in InitialStateFiles
    /\ state_writes = 0
    /\ feed_file \in InitialFeedFiles
    /\ count = 0
    /\ log = <<>>
    /\ clock = MaxScraped
    /\ start_keys = {}
    /\ urls = <<>>
    /\ stale = <<>>
    /\ now = 0
    /\ NoCalls

Next ==
    \/ LoadState
    \/ \E ok \in BOOLEAN : EstablishSession(ok)
    \/ \E resp \in Responses(current_page) : FetchPage(resp)
    \/ ExitNoListings
    \/ UpdateState
    \/ EmitFeed
    \/ SaveState

\* one run of the pipeline
Spec == Init /\ [][Next]_vars

\* the answers of the search capability, page by page
ResponseTable == [p \in 0..(MaxPages + 1) |-> Responses(p)]

\* the steps of discover_and_extract
SessionStep == \E ok \in BOOLEAN : EstablishSession(ok)
FetchStep == \E resp \in ResponseTable[current_page] : FetchPage(resp)

\* a run in which discover_and_extract goes on whenever it can: it is one
\* sequential coroutine and each awaited call returns or raises
FairSpec == Spec /\ WF_vars(SessionStep) /\ WF_vars(FetchStep)

----------------------------------------------------------------------------
(* write_feed on its own: one call on any collection of listings *)

FeedStatuses ==
    {NoText, tActive, tSold, tSoldDate, tOpenSun, tPENDING, tUnsold, tSol}

FeedListings ==
    {[url |-> Url(k), lofty_id |-> ToString(k), mls_id |-> m, status |-> st,
      bedrooms |-> k, property_type |-> tCondo, address |-> tStreet,
      city |-> tCity, image_url |-> CdnImage(k), description |-> NoText,
      scraped_at |-> 0] :
        k \in {1, 2}, m \in {"", "MLS1"}, st \in FeedStatuses}

\* the sequences over S of length at most n
SeqsUpTo(S, n) == UNION {[1..k -> S] : k \in 0..n}

CallWriteFeed(ls) ==
    /\ pc = "feed_ready"
    /\ listings' = ls
    /\ feed_file' = feed_after(ls, feed_file)
    /\ count' = write_feed(ls)
    /\ log' = Append(log, "write_feed")
    /\ pc' = "feed_returned"
    /\ UNCHANGED <<max_listings, current_page, all_listings, requests,
                   responses, sessions, entries, state_file, state_writes,
                   clock, start_keys, urls, stale, now>>
    /\ UNCHANGED call_vars

FeedInit ==
    /\ pc = "feed_ready"
    /\ max_listings = 0
    /\ current_page = 0
    /\ all_listings = <<>>
    /\ requests = <<>>
    /\ responses = <<>>
    /\ sessions = 0
    /\ listings = <<>>
    /\ entries = EmptyMap
    /\ state_file = NoStateFile
    /\ state_writes = 0
    /\ feed_file \in InitialFeedFiles
    /\ count = 0
    /\ log = <<>>
    /\ clock = 0
    /\ start_keys = {}
    /\ urls = <<>>
    /\ stale = <<>>
    /\ now = 0
    /\ NoCalls

FeedNext ==
    /\ pc = "feed_ready"
    /\ \E ls \in SeqsUpTo(FeedListings, MaxFeedLen) : CallWriteFeed(ls)

FeedSpec == FeedInit /\ [][FeedNext]_vars

----------------------------------------------------------------------------
(* The feed fields on their own: one row projected by write_feed, or one   *)
(* call of truncate_listing_name                                           *)

\* how far past the ceiling of 25 the texts of the model reach
MaxOver == 5

\* n times the character c
Repeat(c, n) == [i \in 1..n |-> c]

tInLaw == <<"i", "n", " ", "l", "a", "w", " ", "s", "u", "i", "t", "e", " ", "w", " ", "g", "a", "r", "a", "g", "e">>
tBlankCity == <<" ", ",", " ", "C", "A">>
tShout == <<"L", "U", "X", "U", "R", "Y", " ", "H", "O", "M", "E">>
tAbc == <<"A", " ", "B", " ", "C">>
tBreak == <<"\n", "B", "I", "G", " ", "p", "o", "o", "l", ",", "\r", "\n", "n", "e", "w", " ", "r", "o", "o", "f", " ", " ">>

\* listings that write_feed keeps, over the fields its rows are built from
RowListings ==
    {[url |-> Url(1), lofty_id |-> "1", mls_id |-> "MLS1", status |-> tActive,
      bedrooms |-> b, property_type |-> pt, address |-> a, city |-> c,
      image_url |-> CdnImage(1), description |-> d, scraped_at |-> 0] :
        b \in {0, 3, 12},
        pt \in {NoText, tCondo, tFamily, tInLaw,
                Repeat("T", NameCeiling + MaxOver)},
        a \in {NoText, tStreet, Repeat("a", NameCeiling + MaxOver)},
        c \in {NoText, tCity, tBlankCity,
               Repeat("c", NameCeiling + MaxOver) \o <<",", " ">> \o tCA},
        d \in {NoText, tShout, tAbc, tBreak, tQuiet,
               Repeat("D", NameCeiling + MaxOver)}}

\* the strings truncate_listing_name is called with: a head, " in " or
\* nothing, a tail, and names where " in " occurs twice
Names ==
    {Repeat("x", a) \o m \o Repeat("y", b) :
        a \in 0..(NameCeiling + MaxOver),
        m \in {<<>>, tSpaceIn},
        b \in {0, 3, NameCeiling + MaxOver}} \cup
    {Repeat("x", a) \o tSpaceIn \o Repeat("y", 3) \o tSpaceIn \o Repeat("z", 3) :
        a \in 0..(NameCeiling + MaxOver)}

TruncateName(n) ==
    /\ pc = "feed_ready"
    /\ name_arg' = n
    /\ name_ret' = truncate_listing_name(n)
    /\ pc' = "name_returned"
    /\ UNCHANGED run_vars
    /\ UNCHANGED <<page, extracted, image_arg, image_ret>>

RowNext ==
    /\ pc = "feed_ready"
    /\ \/ \E l \in RowListings : CallWriteFeed(<<l>>)
       \/ \E n \in Names : TruncateName(n)

RowSpec == FeedInit /\ [][RowNext]_vars

----------------------------------------------------------------------------
(* The StateManager on its own: runs that load, update, filter and save *)

StateUrls == {Url(1), Url(2)}

\* the Listing of url u scraped at hour t
ScrapedListing(u, t) ==
    [url |-> u, lofty_id |-> ToString(u[3]), mls_id |-> "MLS1",
     status |-> tActive, scraped_at |-> t]

\* state = StateManager()
NewStateManager ==
    /\ pc = "sm_start"
    /\ entries' = load(state_file)
    /\ start_keys' = DOMAIN state_file.data
    /\ state_writes' = 0
    /\ pc' = "sm_loaded"
    /\ UNCHANGED <<max_listings, current_page, all_listings, requests,
                   responses, sessions, listings, state_file, feed_file,
                   count, log, clock, urls, stale, now>>
    /\ UNCHANGED call_vars

\* state.update(listing) for a listing scraped now
Update(u) ==
    /\ pc \in {"sm_loaded", "sm_filtered"}
    /\ clock <= MaxScraped
    /\ entries' = update(entries, ScrapedListing(u, clock))
    /\ UNCHANGED <<pc, max_listings, current_page, all_listings, requests,
                   responses, sessions, listings, state_file, state_writes,
                   feed_file, count, log, clock, start_keys, urls, stale, now>>
    /\ UNCHANGED call_vars

\* state.filter_stale(us)
FilterStale(us) ==
    /\ pc = "sm_loaded"
    /\ urls' = us
    /\ now' = clock
    /\ stale' = filter_stale(entries, us, clock)
    /\ pc' = "sm_filtered"
    /\ UNCHANGED <<max_listings, current_page, all_listings, requests,
                   responses, sessions, listings, entries, state_file,
                   state_writes, feed_file, count, log, clock, start_keys>>
    /\ UNCHANGED call_vars

\* state.save(), the end of the run
Save ==
    /\ pc \in {"sm_loaded", "sm_filtered"}
    /\ state_file' = dump(entries)
    /\ state_writes' = state_writes + 1
    /\ pc' = "sm_saved"
    /\ UNCHANGED <<max_listings, current_page, all_listings, requests,
                   responses, sessions, listings, entries, feed_file, count,
                   log, clock, start_keys, urls, stale, now>>
    /\ UNCHANGED call_vars

\* the next run starts
NextRun ==
    /\ pc = "sm_saved"
    /\ pc' = "sm_start"
    /\ entries' = EmptyMap
    /\ urls' = <<>>
    /\ stale' = <<>>
    /\ now' = 0
    /\ UNCHANGED <<max_listings, current_page, all_listings, requests,
                   responses, sessions, listings, state_file, state_writes,
                   feed_file, count, log, clock, start_keys>>
    /\ UNCHANGED call_vars

\* an hour passes
Tick ==
    /\ clock < MaxClock
    /\ clock' = clock + 1
    /\ UNCHANGED <<pc, max_listings, current_page, all_listings, requests,
                   responses, sessions, listings, entries, state_file,
                   state_writes, feed_file, count, log, start_keys, urls,
                   stale, now>>
    /\ UNCHANGED call_vars

StateInit ==
    /\ pc = "sm_start"
    /\ max_listings = 0
    /\ current_page = 0
    /\ all_listings = <<>>
    /\ requests = <<>>
    /\ responses = <<>>
    /\ sessions = 0
    /\ listings = <<>>
    /\ entries = EmptyMap
    /\ state_file \in InitialStateFiles
    /\ state_writes = 0
    /\ feed_file = NoFeed
    /\ count = 0
    /\ log = <<>>
    /\ clock = 0
    /\ start_keys = {}
    /\ urls = <<>>
    /\ stale = <<>>
    /\ now = 0
    /\ NoCalls

StateNext ==
    \/ NewStateManager
    \/ \E u \in StateUrls : Update(u)
    \/ \E us \in SeqsUpTo(StateUrls \cup {Url(99)}, 2) : FilterStale(us)
    \/ Save
    \/ NextRun
    \/ Tick

StateSpec == StateInit /\ [][StateNext]_vars

----------------------------------------------------------------------------
(* Calls of single functions of scraper/extract.py *)

\* no pipeline is running
NoRun ==
    /\ max_listings = 0
    /\ current_page = 0
    /\ all_listings = <<>>
    /\ requests = <<>>
    /\ responses = <<>>
    /\ sessions = 0
    /\ listings = <<>>
    /\ entries = EmptyMap
    /\ state_file = NoStateFile
    /\ state_writes = 0
    /\ feed_file = NoFeed
    /\ count = 0
    /\ log = <<>>
    /\ clock = 0
    /\ start_keys = {}
    /\ urls = <<>>
    /\ stale = <<>>
    /\ now = 0

\* tokens after the marker: deflate streams, a stream of bad bytes, text
\* that is not a stream, lengths base64 rejects, a character outside the
\* alphabet (dropped, yet counted by the padding), the empty token
Tokens ==
    {<<>>, <<"e", "J", "x">>, <<"e", "J", "g">>, <<"e", "-", "_">>,
     <<"e", "J", "y">>, <<"e">>, <<"e", "J", "x", "y", "e">>, <<"z", "q">>,
     <<"e", "J", "x", "!">>, <<"z", "q", "!">>}

\* the strings decode_chime_image_url is called with
ImageUrls ==
    {NoImage} \cup
    {prefix \o marker \o tok \o ext :
        prefix \in {<<"https://", ProxyHost, "/imageemb/">>,
                    <<"https://", CdnHost, "/">>,
                    <<"https://", CdnHost, "/", ProxyHost, "/">>},
        marker \in {<<>>, <<TokenMarker>>},
        tok \in Tokens,
        ext \in {<<>>, <<".", "j", "p", "g">>}}

DecodeImage ==
    /\ pc = "decode_ready"
    /\ image_ret' = decode_chime_image_url(image_arg)
    /\ pc' = "decoded"
    /\ UNCHANGED run_vars
    /\ UNCHANGED <<page, extracted, image_arg, name_arg, name_ret>>

DecodeInit ==
    /\ pc = "decode_ready"
    /\ NoRun
    /\ page = 0
    /\ extracted = 0
    /\ image_arg \in ImageUrls
    /\ image_ret = <<>>
    /\ name_arg = <<>>
    /\ name_ret = <<>>

DecodeNext == DecodeImage

DecodeSpec == DecodeInit /\ [][DecodeNext]_vars

----------------------------------------------------------------------------
(* One call of extract_listing *)

t500000 == <<"5", "0", "0", "0", "0", "0">>
tZero == <<"0">>
tDollar575000 == <<"$", "5", "7", "5", ",", "0", "0", "0">>
tDollarZero == <<"$", "0">>
tDollar1250_50 == <<"$", "1", ",", "2", "5", "0", ".", "5", "0">>

\* what _extract_jsonld can return: None, or a Product block whose offer
\* price is text or a JSON number, present or not
JsonLds ==
    {NoJsonLd} \cup
    {[found |-> TRUE, price |-> p, image |-> i, name |-> n] :
        p \in {PriceText(<<>>), PriceText(t500000), PriceText(tZero),
               PriceNumber(t500000), PriceNumber(tZero)},
        i \in {NoImage, ProxyImage(1), CdnImage(5)},
        n \in {<<>>, tName}}

\* what the DOM evaluation can return: the text of each selector, "" for a
\* selector that matched nothing
Doms ==
    {[street |-> st, city |-> tCity, status |-> tActive, beds |-> b,
      baths |-> <<"2">>, sqft |-> <<"1", ",", "8", "3", "3">>, price |-> p, image |-> i,
      description |-> <<>>] :
        st \in {<<>>, tStreet},
        b \in {<<>>, <<"3", " ", "b", "d">>},
        p \in {<<>>, tDollar575000, tDollarZero, tDollar1250_50},
        i \in {NoImage, ProxyImage(3), ProxyImage(2)}}

KeyDetails ==
    {[mls_id |-> m, property_type |-> tCondo] : m \in {"", "MLS1"}}

\* a detail page that failed to load, or one that rendered
Pages ==
    {[loaded |-> FALSE, jsonld |-> NoJsonLd,
      dom |-> CHOOSE d \in Doms : d.street = <<>> /\ d.beds = <<>>
                                   /\ d.price = <<>> /\ d.image = NoImage,
      key_details |-> CHOOSE k \in KeyDetails : k.mls_id = ""]} \cup
    {[loaded |-> TRUE, jsonld |-> j, dom |-> d, key_details |-> k] :
        j \in JsonLds, d \in Doms, k \in KeyDetails}

ExtractListing ==
    /\ pc = "extract_ready"
    /\ extracted' = extract_listing(page, Url(1), clock)
    /\ pc' = "extract_returned"
    /\ UNCHANGED run_vars
    /\ UNCHANGED <<page, image_arg, image_ret, name_arg, name_ret>>

ExtractInit ==
    /\ pc = "extract_ready"
    /\ NoRun
    /\ page \in Pages
    /\ extracted = 0
    /\ image_arg = <<>>
    /\ image_ret = <<>>
    /\ name_arg = <<>>
    /\ name_ret = <<>>

ExtractNext == ExtractListing

ExtractSpec == ExtractInit /\ [][ExtractNext]_vars

----------------------------------------------------------------------------
(* Properties of discover_and_extract, under Spec *)

Range(f) == {f[i] : i \in DOMAIN f}

\* discover_and_extract has returned
Returned == pc \notin {"start", "AwaitingSession", "Paginating"}

\* the listings converted from the i-th answer
PageBatch(i) ==
    IF responses[i].ok THEN convert(responses[i].listings, clock) ELSE <<>>

\* the listings converted from the first i answers, in page order
Accumulated(i) == Concat([j \in 1..i |-> PageBatch(j)])

\* after the i-th request the loop goes on to the next page
NextRequested(i) ==
    \/ i < Len(requests) /\ requests[i + 1] = requests[i] + 1
    \/ i = Len(requests) /\ pc = "Paginating" /\ current_page = requests[i] + 1

\* C1: page N+1 is requested if and only if the request for page N
\* succeeded, returned exactly PAGE_SIZE raw items, and the configured
\* maximum (when non-zero) has not been reached
C1_NextPageIffFullRawPage ==
    \A i \in 1..Len(requests) :
        NextRequested(i) <=>
            /\ responses[i].ok
            /\ Len(responses[i].listings) = PAGE_SIZE
            /\ ~(max_listings # 0 /\ Len(Accumulated(i)) >= max_listings)

\* C2: with a maximum M > 0 configured the returned list never holds more
\* than M listings
C2_ReturnedAtMostMax ==
    (Returned /\ max_listings > 0) => Len(listings) <= max_listings

\* C3: a failed page request is the last request of the run, and the run
\* returns exactly the listings of the pages before it
C3_FailedPageKeepsAccumulated ==
    \A i \in 1..Len(responses) :
        ~responses[i].ok =>
            /\ i = Len(requests)
            /\ Returned
            /\ listings = Accumulated(i - 1)

C3_Witness ==
    /\ Len(responses) = 2
    /\ ~responses[2].ok
    /\ Len(listings) = PAGE_SIZE
    /\ pc = "Done"

\* C4: a failed session establishment yields an empty list, no page request
\* and no second establishment attempt
C4_SessionFailureYieldsNothing ==
    "session_failed" \in Range(log) =>
        /\ pc \in {"Failed", "Exit1"}
        /\ listings = <<>>
        /\ requests = <<>>
        /\ sessions = 1

C4_Witness == pc = "Failed" /\ "session_failed" \in Range(log)

\* C5: when the maximum cannot truncate, the returned list is the
\* concatenation, in page order and within-page order, of the converted
\* items of every fetched page, repeated ids included
C5_ResultIsConcatenation ==
    (/\ Returned
     /\ max_listings = 0 \/ Len(Accumulated(Len(responses))) <= max_listings)
        => listings = Accumulated(Len(responses))

\* an id of page 1 is repeated on page 2 and both copies are returned
C5_Witness ==
    /\ pc = "Done"
    /\ max_listings = 0
    /\ Len(responses) = 2
    /\ \E i \in 1..Len(PageBatch(1)) : \E j \in 1..Len(PageBatch(2)) :
          /\ PageBatch(1)[i].lofty_id = PageBatch(2)[j].lofty_id
          /\ listings[i] = listings[Len(PageBatch(1)) + j]

----------------------------------------------------------------------------
(* Properties of write_feed, under FeedSpec *)

TerminalWords == Range(inactive)

\* position i of text s starts word w, letter case ignored
MatchesAt(s, i, w) ==
    /\ i + Len(w) - 1 <= Len(s)
    /\ \A k \in 1..Len(w) : lower(<<s[i + k - 1]>>) = <<w[k]>>

\* the listing is active and has an MLS-style id
Survives(l) ==
    /\ l.mls_id # ""
    /\ l.status # NoText
    /\ \A w \in TerminalWords : \A i \in 1..Len(l.status) : ~MatchesAt(l.status, i, w)

Survivors(ls) == SelectSeq(ls, Survives)

\* C6: the emitted rows are, one each and in input order, the listings
\* that are active and have an MLS-style id; the returned count is the
\* number of rows written
C6_RowsAreActiveWithMlsId ==
    pc = "feed_returned" =>
        LET sv == Survivors(listings)
        IN  /\ count = Len(sv)
            /\ sv # <<>> =>
                /\ feed_file.exists
                /\ Len(feed_file.rows) = Len(sv)
                /\ \A j \in 1..Len(sv) :
                      /\ feed_file.rows[j].listing_id = sv[j].lofty_id
                      /\ feed_file.rows[j].final_url = sv[j].url

\* an active listing without MLS id is left out, the one after it is emitted
C6_Witness ==
    /\ pc = "feed_returned"
    /\ Len(listings) = 2
    /\ is_active(listings[1]) /\ listings[1].mls_id = ""
    /\ listings[2].status = tOpenSun /\ listings[2].mls_id # ""
    /\ listings[1].lofty_id # listings[2].lofty_id
    /\ count = 1
    /\ Len(feed_file.rows) = 1
    /\ feed_file.rows[1].listing_id = listings[2].lofty_id

\* C7: a call that no listing survives returns 0 and leaves the feed file
\* as it was
C7_EmptyFeedKeepsFile ==
    [][(pc = "feed_ready" /\ pc' = "feed_returned" /\ Survivors(listings') = <<>>)
          => (feed_file' = feed_file /\ count' = 0)]_vars

C7_Witness ==
    /\ pc = "feed_returned"
    /\ listings # <<>>
    /\ Survivors(listings) = <<>>
    /\ feed_file = OldFeed
    /\ count = 0

----------------------------------------------------------------------------
(* Properties of the StateManager, under StateSpec *)

C10_FilterStaleIsStrictSubsequence ==
    [][(pc = "sm_loaded" /\ pc' = "sm_filtered") =>
          /\ stale' = SelectSeq(urls', LAMBDA u :
                         \/ u \notin DOMAIN entries
                         \/ entries[u].last_scraped + stale_hours < clock)
          /\ \A i \in 1..Len(urls') :
                urls'[i] \in DOMAIN entries =>
                    LET T == entries[urls'[i]].last_scraped
                    IN  /\ clock >= T + stale_hours + 1
                            => urls'[i] \in Range(stale')
                        /\ clock <= T + stale_hours - 1
                            => urls'[i] \notin Range(stale')]_vars

\* at hour 13 an entry scraped at hour 0 is stale and one scraped at hour 1
\* is not
C10_Witness ==
    /\ pc = "sm_filtered"
    /\ now = stale_hours + 1
    /\ urls = <<Url(2), Url(1)>>
    /\ Url(1) \in DOMAIN entries /\ entries[Url(1)].last_scraped = 0
    /\ Url(2) \in DOMAIN entries /\ entries[Url(2)].last_scraped = 1
    /\ stale = <<Url(1)>>

----------------------------------------------------------------------------
(* Properties of _run_pipeline, under Spec *)

RunEnded == pc \in {"Exit1", "Finished"}

\* C9: in every run the state collection is written exactly once, as the
\* last step of the run
C9_StateWrittenExactlyOnce ==
    RunEnded => (state_writes = 1 /\ log[Len(log)] = "save")

\* C9, amended: the state file is written at most once per run; a run that
\* discovered no listing ends without writing it; a run that discovered
\* listings writes the whole collection once, as its last step, after the
\* updates and the feed emission, and leaves the file alone before that
C9_StateWrittenOnceAfterDiscovery ==
    /\ pc # "Finished" => (state_writes = 0 /\ state_file \in InitialStateFiles)
    /\ pc = "Exit1" => listings = <<>>
    /\ pc = "Finished" =>
          /\ state_writes = 1
          /\ listings # <<>>
          /\ state_file = dump(entries)
          /\ start_keys \subseteq DOMAIN state_file.data
          /\ \A i \in 1..Len(listings) : listings[i].url \in DOMAIN state_file.data
          /\ Len(log) >= 3
          /\ SubSeq(log, Len(log) - 2, Len(log)) = <<"update", "write_feed", "save">>

C9_Witness ==
    /\ pc = "Finished"
    /\ state_writes = 1
    /\ Url(99) \in DOMAIN state_file.data
    /\ Url(2) \in DOMAIN state_file.data

\* the texts a proxy token can decode to
DecodedTexts == {RawDeflate[d] : d \in DOMAIN RawDeflate} \ {BadBytes}

\* C17: decode_chime_image_url never raises; it returns its argument unchanged
\* when the argument is empty, lacks the proxy host or lacks the token
\* marker, and whenever a step of the decoding fails: the result is either
\* the argument itself or the text a token decodes to
C17_DecoderNeverRaises ==
    pc = "decoded" =>
        /\ image_ret # Traceback
        /\ (image_arg = NoImage \/ ~has_piece(image_arg, ProxyHost)
               \/ ~has_piece(image_arg, TokenMarker)) => image_ret = image_arg
        /\ image_ret = image_arg \/ image_ret \in DecodedTexts

\* a proxy url with a token whose decoding failed came back unchanged
C17_Witness ==
    /\ pc = "decoded"
    /\ has_piece(image_arg, ProxyHost)
    /\ has_piece(image_arg, TokenMarker)
    /\ try_decode(image_arg).raised
    /\ image_ret = image_arg

\* C11: with no Product block, a rendered page and an MLS id in the key
\* details, extract_listing returns a Listing whose price, image, address,
\* city, status and counts come from the rendered source, whatever the
\* rendered source holds (an empty street included)
C11_MissingStructuredSourceTolerated ==
    (/\ pc = "extract_returned"
     /\ page.loaded
     /\ ~page.jsonld.found
     /\ page.key_details.mls_id # "") =>
        /\ extracted.ok
        /\ extracted.listing.price = parse_price(PriceText(page.dom.price)).val
        /\ extracted.listing.image_url = decode_chime_image_url(page.dom.image)
        /\ extracted.listing.address = page.dom.street
        /\ extracted.listing.city = page.dom.city
        /\ extracted.listing.status = page.dom.status
        /\ extracted.listing.bedrooms = parse_int(page.dom.beds)
        /\ extracted.listing.bathrooms = parse_int(page.dom.baths)
        /\ extracted.listing.sqft = parse_int(page.dom.sqft)

\* the price _parse_price gives for the structured source (0 without one)
StructuredPrice ==
    IF page.jsonld.found THEN parse_price(page.jsonld.price).val ELSE 0

\* C12: the price of the Listing extract_listing returns is the structured
\* source's parsed price when that is not zero, and otherwise the parsed
\* price text of the rendered source; structured "500000" gives 500000,
\* structured zero with rendered "$575,000" gives 575000 (in cents here)
C12_StructuredPriceWinsIfNonZero ==
    (pc = "extract_returned" /\ extracted.ok) =>
        /\ StructuredPrice # 0 => extracted.listing.price = StructuredPrice
        /\ StructuredPrice = 0 =>
              extracted.listing.price = parse_price(PriceText(page.dom.price)).val
        /\ (page.jsonld.found /\ page.jsonld.price = PriceText(t500000)) =>
              extracted.listing.price = 50000000
        /\ (StructuredPrice = 0 /\ page.dom.price = tDollar575000) =>
              extracted.listing.price = 57500000

\* the structured price won over a rendered price that also parses
C12_Witness ==
    /\ pc = "extract_returned"
    /\ extracted.ok
    /\ page.jsonld.price = PriceText(t500000)
    /\ page.dom.price = tDollar575000
    /\ extracted.listing.price = 50000000

----------------------------------------------------------------------------
(* Properties of the feed fields *)

\* C13: every Listing discovery returns carries an image url that went
\* through the decoder, so no row of the emitted feed holds a proxy url the
\* decoder would have decoded
C13_NoDecodableProxyImage ==
    /\ pc = "Done" =>
          \A i \in 1..Len(listings) :
              decode_chime_image_url(listings[i].image_url) = listings[i].image_url
    /\ (pc = "FeedWritten" /\ count > 0) =>
          \A j \in 1..Len(feed_file.rows) :
              decode_chime_image_url(feed_file.rows[j].image_url)
                  = feed_file.rows[j].image_url

\* C14: the Listing ID of every emitted row is the MLS-style id of the
\* listing the row was projected from
C14_ListingIdIsMlsId ==
    (pc = "feed_returned" /\ count > 0) =>
        LET sv == Survivors(listings)
        IN  \A j \in 1..Len(feed_file.rows) :
                feed_file.rows[j].listing_id = sv[j].mls_id

\* C15: the Description of every emitted row has at most 25 characters, and
\* is the title-cased form of the truncated description whenever more than
\* half of the characters of the truncated description are uppercase, which
\* is what fix_description makes of it
C15_DescriptionTruncatedAndCapsFixed ==
    (pc = "feed_returned" /\ count > 0) =>
        LET sv == Survivors(listings)
        IN  \A j \in 1..Len(feed_file.rows) :
                LET truncated == Prefix(strip(replace_newlines(sv[j].description)), 25)
                IN  /\ Len(feed_file.rows[j].description) <= 25
                    /\ 2 * count_upper(truncated) > Len(truncated) =>
                          feed_file.rows[j].description = title(truncated)
                    /\ feed_file.rows[j].description = fix_description(truncated)

\* C16: truncate_listing_name returns at most 25 characters for every
\* string, and so does Listing.listing_name, hence the Listing name of
\* every emitted row, for every bedroom count, property type, city and
\* address
C16_NameAtMost25 ==
    /\ pc = "name_returned" => Len(name_ret) <= 25
    /\ pc = "feed_returned" =>
          /\ \A i \in 1..Len(listings) : Len(listing_name(listings[i])) <= 25
          /\ count > 0 =>
                \A j \in 1..Len(feed_file.rows) :
                    Len(feed_file.rows[j].listing_name) <= 25

\* a name that is still too long after its city part is dropped was cut
C16_Witness ==
    /\ pc = "name_returned"
    /\ contains(name_arg, tSpaceIn)
    /\ rfind(name_arg, tSpaceIn) > 26
    /\ Len(name_ret) = 25

----------------------------------------------------------------------------
(* Termination of discover_and_extract, under FairSpec *)

\* ceil(a / b)
CeilDiv(a, b) == (a + b - 1) \div b

\* C18: with a maximum M > 0 discover_and_extract returns, after at most
\* ceil(M / PAGE_SIZE) page requests whatever the pages hold; with M = 0 the
\* loop is left only after a page that failed, was empty or converted to
\* fewer than PAGE_SIZE listings; the pages requested are 1, 2, 3, ... in
\* this order, each once
C18_DiscoveryTerminates ==
    /\ [](max_listings > 0 =>
            /\ Len(requests) <= CeilDiv(max_listings, PAGE_SIZE)
            /\ pc = "Paginating" =>
                  Len(requests) < CeilDiv(max_listings, PAGE_SIZE))
    /\ []((max_listings = 0 /\ Returned /\ requests # <<>>) =>
            Len(PageBatch(Len(requests))) < PAGE_SIZE)
    /\ [](requests = [i \in 1..Len(requests) |-> i])
    /\ [](pc = "Paginating" => current_page = Len(requests) + 1)
    /\ (max_listings > 0 /\ pc = "AwaitingSession") ~> Returned

\* a run with a maximum above the page size returned after exactly
\* ceil(M / PAGE_SIZE) full pages
C18_Witness ==
    /\ max_listings > PAGE_SIZE
    /\ Returned
    /\ Len(requests) = CeilDiv(max_listings, PAGE_SIZE)
    /\ Len(requests) > 1
    /\ Len(listings) = max_listings

====
